---- MODULE Spec2Model ----
(***************************************************************************)
(* Model of the feature-extraction subsystem of AuAuAu:                    *)
(*   src/src/features/features_extractors.py  (table builders, geometry,   *)
(*                                              feature identifiers)       *)
(*   src/src/features/input_parsers.py        (parse_feature_name,         *)
(*                                     _load_lines_after_specified_one)    *)
(*   src/src/function_manipulators.py         (assert_proper_input)        *)
(*                                                                         *)
(* Strings are sequences of one-character strings, so that formatting and  *)
(* regex scanning are computed character by character.  Python exceptions  *)
(* are modelled as result records [err |-> <exception name>].              *)
(***************************************************************************)
EXTENDS Integers, Sequences, FiniteSets, TLC

VARIABLES df, old, call, result, prev, writers, ncalls,
          f, comments, next_line_is_comment

vars == <<df, old, call, result, prev, writers, ncalls,
          f, comments, next_line_is_comment>>

\* the state of _load_lines_after_specified_one: the unread rest of the open
\* file and the two locals of the function
readerVars == <<f, comments, next_line_is_comment>>

\* the state of the table builders and of the last call made
callerVars == <<df, old, prev, writers, ncalls>>

----------------------------------------------------------------------------
(* Bounds of the model *)

\* largest atom index handed to the identifier codec (indices are -1..MaxIdx)
MaxIdx == 11
\* longest index tuple handed to generate_feature_id on its own
MaxArity == 2
\* largest atom index handed to the particle manipulators (-1..MaxGeoIdx)
MaxGeoIdx == 3
\* longest centroid group handed to get_benzene_dst
MaxGroup == 1
\* number of builder calls made on one table
MaxCalls == 2
\* number of pieces a file's text is put together from
MaxPieces == 4

----------------------------------------------------------------------------
(* Characters and Python string primitives *)

Digits == <<"0", "1", "2", "3", "4", "5", "6", "7", "8", "9">>

DigitChars == {Digits[i] : i \in 1..10}

\* the regex class [a-z_]
LowerChars ==
    {"a", "b", "c", "d", "e", "f", "g", "h", "i", "j", "k", "l", "m",
     "n", "o", "p", "q", "r", "s", "t", "u", "v", "w", "x", "y", "z", "_"}

DigitVal(c) == CHOOSE d \in 0..9 : Digits[d + 1] = c

RECURSIVE StrNat(_)
\* str() of a non-negative int: plain decimal digits, no padding
StrNat(n) ==
    IF n < 10 THEN <<Digits[n + 1]>>
    ELSE StrNat(n \div 10) \o <<Digits[(n % 10) + 1]>>

\* f"{idx}" for an int: a minus sign in front of a negative one
FormatInt(i) == IF i < 0 THEN <<"-">> \o StrNat(-i) ELSE StrNat(i)

RECURSIVE IntOfDigits(_)
\* int(arg) for a run of decimal digits
IntOfDigits(run) ==
    IF Len(run) = 0 THEN 0
    ELSE 10 * IntOfDigits(SubSeq(run, 1, Len(run) - 1)) + DigitVal(run[Len(run)])

RECURSIVE LeadingRun(_, _)
\* the longest prefix of s made of characters of class
LeadingRun(s, class) ==
    IF Len(s) = 0 \/ s[1] \notin class THEN <<>>
    ELSE <<s[1]>> \o LeadingRun(Tail(s), class)

RECURSIVE FindAllDigits(_)
\* re.findall(r"\d+", s): every maximal digit run, left to right
FindAllDigits(s) ==
    IF Len(s) = 0 THEN <<>>
    ELSE IF s[1] \in DigitChars
         THEN LET run == LeadingRun(s, DigitChars)
              IN  <<run>> \o FindAllDigits(SubSeq(s, Len(run) + 1, Len(s)))
         ELSE FindAllDigits(Tail(s))

\* re.match(r"^[a-z_]+", s): the match text, or None when nothing matches
NoMatch == [matched |-> FALSE, text |-> <<>>]

MatchAlias(s) ==
    LET run == LeadingRun(s, LowerChars)
    IN  IF Len(run) = 0 THEN NoMatch ELSE [matched |-> TRUE, text |-> run]

RECURSIVE Join(_)
\* "".join(parts)
Join(parts) == IF Len(parts) = 0 THEN <<>> ELSE Head(parts) \o Join(Tail(parts))

----------------------------------------------------------------------------
(* Results of calls *)

Ok(v) == [err |-> "none", val |-> v]

Raise(e) == [err |-> e, val |-> <<>>]

IsOk(r) == r.err = "none"

\* the first element of rs that is an exception, in evaluation order
FirstError(rs) ==
    LET bad == {i \in 1..Len(rs) : ~IsOk(rs[i])}
    IN  rs[CHOOSE i \in bad : \A j \in bad : i <= j]

AllOk(rs) == \A i \in 1..Len(rs) : IsOk(rs[i])

----------------------------------------------------------------------------
(* input_parsers.parse_feature_name *)

ParseFeatureName(feature_signature) ==
    LET args == FindAllDigits(feature_signature)
        m == MatchAlias(feature_signature)
    IN  IF ~m.matched THEN Raise("AttributeError")   \* None.group()
        ELSE Ok([signature |-> feature_signature,
                 alias |-> m.text,
                 atoms_idxs |-> [i \in 1..Len(args) |-> IntOfDigits(args[i])]])

----------------------------------------------------------------------------
(* Structures (ase.atoms.Atoms): chemical symbols and integer positions *)

Atoms(symbols, positions) ==
    [type |-> "Atoms", symbols |-> symbols, positions |-> positions]

NAtoms(particle) == Len(particle.symbols)

\* seq[idx] of a Python list or numpy array: 0-based, a negative idx counts
\* from the end, anything outside -n..n-1 raises IndexError
GetItem(seq, idx) ==
    IF 0 <= idx /\ idx < Len(seq) THEN Ok(seq[idx + 1])
    ELSE IF -Len(seq) <= idx /\ idx < 0 THEN Ok(seq[Len(seq) + idx + 1])
    ELSE Raise("IndexError")

\* [particle.get_chemical_symbols()[idx] for idx in idxs]
GetParticleSymbols(particle, idxs) ==
    LET got == [k \in 1..Len(idxs) |-> GetItem(particle.symbols, idxs[k])]
    IN  IF AllOk(got) THEN Ok([k \in 1..Len(idxs) |-> got[k].val])
        ELSE FirstError(got)

\* the identifier built from the symbols alone
GenerateFeatureIdSymbolsOnly(particle, idxs, prefix) ==
    LET symbols == GetParticleSymbols(particle, idxs)
    IN  IF ~IsOk(symbols) THEN symbols
        ELSE Ok(prefix \o Join(symbols.val))

\* prefix + "".join([f"{s}{idx}" for s, idx in zip(symbols, idxs)])
GenerateFeatureId(particle, idxs, prefix) ==
    LET symbols == GetParticleSymbols(particle, idxs)
    IN  IF ~IsOk(symbols) THEN symbols
        ELSE Ok(prefix \o Join([k \in 1..Len(idxs) |->
                                    symbols.val[k] \o FormatInt(idxs[k])]))

----------------------------------------------------------------------------
(* Scalars.  A feature value is a tagged tuple:                            *)
(*   <<"nan">>              a non-finite float                             *)
(*   <<"sqrt", n, d>>       sqrt(n/d), n/d in lowest terms                 *)
(*   <<"cos", s, n, d>>     s * sqrt(n/d), s in {-1, 0, 1}                 *)
(*   <<"ratio", n, d>>      n/d in lowest terms                            *)
(*   <<"angle", ...>>, <<"dihedral", ...>>   results of the ASE methods,   *)
(*                          kept as terms over the atoms' positions        *)
(*   <<"float", x>>         a metadata value                               *)

NaN == <<"nan">>

IsFinite(v) == v # NaN

Sign(x) == IF x < 0 THEN -1 ELSE IF x = 0 THEN 0 ELSE 1

RECURSIVE Gcd(_, _)
Gcd(a, b) == IF b = 0 THEN a ELSE Gcd(b, a % b)

Num(n, d) == n \div Gcd(n, d)

Den(n, d) == d \div Gcd(n, d)

(* Lin. alg. helpers, over exact integer vectors *)

VSub(a, b) == <<a[1] - b[1], a[2] - b[2], a[3] - b[3]>>

VAdd(a, b) == <<a[1] + b[1], a[2] + b[2], a[3] + b[3]>>

VScale(k, a) == <<k * a[1], k * a[2], k * a[3]>>

Dot(a, b) == a[1] * b[1] + a[2] * b[2] + a[3] * b[3]

\* np.cross
Cross(a, b) ==
    <<a[2] * b[3] - a[3] * b[2], a[3] * b[1] - a[1] * b[3], a[1] * b[2] - a[2] * b[1]>>

\* vector / np.linalg.norm(vector): the vector together with its squared
\* norm; dividing the zero vector by its zero norm gives nan components
UnitVector(vector) ==
    [nan |-> Dot(vector, vector) = 0, vec |-> vector, normsq |-> Dot(vector, vector)]

\* the cosine with zero-length vectors guarded: 0 instead of nan
CosBetweenGuarded(v1, v2) ==
    LET d == Dot(v1, v2)
        den == Dot(v1, v1) * Dot(v2, v2)
    IN  IF den = 0 THEN <<"cos", 0, 0, 1>>
        ELSE <<"cos", Sign(d), Num(d * d, den), Den(d * d, den)>>

\* np.dot(unit_vector(v1), unit_vector(v2))
CosBetween(v1, v2) ==
    LET v1_u == UnitVector(v1)
        v2_u == UnitVector(v2)
        d == Dot(v1_u.vec, v2_u.vec)
        den == v1_u.normsq * v2_u.normsq
    IN  IF v1_u.nan \/ v2_u.nan THEN NaN
        ELSE <<"cos", Sign(d), Num(d * d, den), Den(d * d, den)>>

\* x ** 2 of a cosine
Square(c) == IF c = NaN THEN NaN ELSE <<"ratio", c[3], c[4]>>

(* Particle manipulators *)

CalculatePerpendicularVector(particle, plane_idxs) ==
    LET p0 == GetItem(particle.positions, plane_idxs[1])
        p1 == GetItem(particle.positions, plane_idxs[2])
        p2 == GetItem(particle.positions, plane_idxs[3])
    IN  IF ~AllOk(<<p0, p1, p2>>) THEN Raise("IndexError")
        ELSE Ok(Cross(VSub(p0.val, p1.val), VSub(p2.val, p1.val)))

CosBetweenPlanes(particle, plane1_idxs, plane2_idxs) ==
    LET normal_vec1 == CalculatePerpendicularVector(particle, plane1_idxs)
        normal_vec2 == CalculatePerpendicularVector(particle, plane2_idxs)
    IN  IF ~IsOk(normal_vec1) THEN normal_vec1
        ELSE IF ~IsOk(normal_vec2) THEN normal_vec2
        ELSE Ok(CosBetween(normal_vec1.val, normal_vec2.val))

\* the row function without the squaring
BenzeneCossqUnsquared(particle, benzene1_idxs, benzene2_idxs) ==
    CosBetweenPlanes(particle, benzene1_idxs, benzene2_idxs)

\* the row function of add_benzene_cossq_feature
BenzeneCossq(particle, benzene1_idxs, benzene2_idxs) ==
    LET c == CosBetweenPlanes(particle, benzene1_idxs, benzene2_idxs)
    IN  IF ~IsOk(c) THEN c ELSE Ok(Square(c.val))

RECURSIVE VSum(_)
VSum(ps) == IF Len(ps) = 0 THEN <<0, 0, 0>> ELSE VAdd(Head(ps), VSum(Tail(ps)))

\* particle.positions[idxs] for a list of indices
TakePositions(particle, idxs) ==
    LET got == [k \in 1..Len(idxs) |-> GetItem(particle.positions, idxs[k])]
    IN  IF AllOk(got) THEN Ok([k \in 1..Len(idxs) |-> got[k].val])
        ELSE Raise("IndexError")

\* np.linalg.norm(np.mean(P1, axis=0) - np.mean(P2, axis=0)); the mean of
\* no rows is nan
GetBenzeneDst(particle, benzene1_idxs, benzene2_idxs) ==
    LET g1 == TakePositions(particle, benzene1_idxs)
        g2 == TakePositions(particle, benzene2_idxs)
        n1 == Len(benzene1_idxs)
        n2 == Len(benzene2_idxs)
        d == VSub(VScale(n2, VSum(g1.val)), VScale(n1, VSum(g2.val)))
    IN  IF ~IsOk(g1) THEN g1
        ELSE IF ~IsOk(g2) THEN g2
        ELSE IF n1 = 0 \/ n2 = 0 THEN Ok(NaN)
        ELSE Ok(<<"sqrt", Num(Dot(d, d), n1 * n1 * n2 * n2),
                          Den(Dot(d, d), n1 * n1 * n2 * n2)>>)

(* The ASE methods handed to __add_universal_feature.  An angle and a    *)
(* dihedral are kept as terms over the positions they are computed from; *)
(* the index tuples drawn for them below keep every arm and every plane  *)
(* of the torsion non-degenerate, where the methods are defined.         *)

\* ase.Atoms.get_distance(p, a0, a1)
GetDistance(particle, idxs) ==
    LET ps == TakePositions(particle, idxs)
        d == VSub(ps.val[2], ps.val[1])
    IN  IF ~IsOk(ps) THEN ps ELSE Ok(<<"sqrt", Dot(d, d), 1>>)

\* ase.Atoms.get_angle(p, a1, a2, a3): the angle at a2
GetAngle(particle, idxs) ==
    LET ps == TakePositions(particle, idxs)
    IN  IF ~IsOk(ps) THEN ps
        ELSE Ok(<<"angle", ps.val[1], ps.val[2], ps.val[3]>>)

\* ase.Atoms.get_dihedral(p, a0, a1, a2, a3)
GetDihedral(particle, idxs) ==
    LET ps == TakePositions(particle, idxs)
    IN  IF ~IsOk(ps) THEN ps
        ELSE Ok(<<"dihedral", ps.val[1], ps.val[2], ps.val[3], ps.val[4]>>)

----------------------------------------------------------------------------
(* Inputs: structures, index tuples, names *)

SymC == <<"C">>

SymH == <<"H">>

SymAu == <<"A", "u">>

\* the 4-atom structure of the documented scenario
SquareP ==
    Atoms(<<SymC, SymC, SymH, SymH>>,
          <<<<0, 0, 0>>, <<1, 0, 0>>, <<1, 1, 0>>, <<0, 1, 0>>>>)

\* four atoms that are not coplanar
TetraP ==
    Atoms(<<SymAu, SymC, SymH, SymAu>>,
          <<<<0, 0, 0>>, <<1, 0, 0>>, <<0, 1, 0>>, <<0, 0, 1>>>>)

\* three collinear atoms
LineP ==
    Atoms(<<SymH, SymC, SymC>>,
          <<<<0, 0, 0>>, <<1, 0, 0>>, <<2, 0, 0>>>>)

\* a chain long enough for two-digit atom indices
ChainP ==
    Atoms([i \in 1..12 |-> IF i % 2 = 1 THEN SymC ELSE SymAu],
          [i \in 1..12 |-> <<i, 0, 0>>])

GeoParticles == {SquareP, TetraP, LineP}

CodecParticles == {SquareP, ChainP}

\* all tuples of length lo..hi over S
TuplesOver(S, lo, hi) == UNION {[1..n -> S] : n \in lo..hi}

CodecIdxs == TuplesOver(-1..MaxIdx, 1, MaxArity)

PlaneIdxs == [1..3 -> -1..MaxGeoIdx]

GroupIdxs == TuplesOver(-1..MaxGeoIdx, 0, MaxGroup)

\* name prefixes handed to the identifier encoder ("" is its default)
Prefixes ==
    {<<>>, <<"d", "s", "t">>, <<"a", "n", "g">>, <<"b", "_", "d">>}

\* column names of the program that no encoder call produced
LiteralNames ==
    {<<"b", "e", "n", "z", "e", "n", "e", "_", "d", "s", "t">>,
     <<"b", "e", "n", "z", "e", "n", "e", "_", "c", "o", "s", "s", "q">>,
     <<"o", "b", "j">>,
     <<"i", "d">>,
     <<"1">>,
     <<"e", "n", "e", "r", "g", "y", "_", "l", "e", "v", "e", "l", "_", "1", "0">>,
     <<"d", "s", "t", "C", "1", "2", "C", "1">>,
     <<"a", "n", "g", "C", "2", "A", "u", "1", "1", "A", "u", "1">>,
     <<"A", "u", "0", "0", "7">>}

----------------------------------------------------------------------------
(* The pure functions, each applied to drawn inputs *)

NoCall == [op |-> "none"]

NoResult == Raise("nothing")

NoTable == [type |-> "NoneType"]

NoWriters == <<>>

\* no file is open
NoFile ==
    /\ f = <<>>
    /\ comments = <<>>
    /\ next_line_is_comment = FALSE

InitFn ==
    /\ NoFile
    /\ df = NoTable
    /\ old = NoTable
    /\ call = NoCall
    /\ result = NoResult
    /\ prev = NoCall
    /\ writers = NoWriters
    /\ ncalls = 0

FnGenerateFeatureId ==
    /\ call = NoCall
    /\ \E p \in CodecParticles, idxs \in CodecIdxs, prefix \in Prefixes :
            /\ call' = [op |-> "generate_feature_id", particle |-> p,
                        idxs |-> idxs, prefix |-> prefix]
            /\ result' = GenerateFeatureId(p, idxs, prefix)
            /\ prev' = NoCall
            /\ UNCHANGED <<df, old, writers, ncalls, readerVars>>

\* parse_feature_name applied to the name the encoder just returned
FnParseGenerated ==
    /\ call.op = "generate_feature_id"
    /\ IsOk(result)
    /\ call' = [op |-> "parse_feature_name", name |-> result.val]
    /\ result' = ParseFeatureName(result.val)
    /\ prev' = call
    /\ UNCHANGED <<df, old, writers, ncalls, readerVars>>

FnParseLiteral ==
    /\ call = NoCall
    /\ \E name \in LiteralNames :
            /\ call' = [op |-> "parse_feature_name", name |-> name]
            /\ result' = ParseFeatureName(name)
            /\ prev' = NoCall
            /\ UNCHANGED <<df, old, writers, ncalls, readerVars>>

FnGetBenzeneDst ==
    /\ call = NoCall
    /\ \E p \in GeoParticles, g1 \in GroupIdxs, g2 \in GroupIdxs :
            /\ call' = [op |-> "get_benzene_dst", particle |-> p,
                        idxs1 |-> g1, idxs2 |-> g2]
            /\ result' = GetBenzeneDst(p, g1, g2)
            /\ prev' = NoCall
            /\ UNCHANGED <<df, old, writers, ncalls, readerVars>>

FnCosBetweenPlanes ==
    /\ call = NoCall
    /\ \E p \in GeoParticles, a \in PlaneIdxs, b \in PlaneIdxs :
            /\ call' = [op |-> "cos_between_planes", particle |-> p,
                        idxs1 |-> a, idxs2 |-> b]
            /\ result' = CosBetweenPlanes(p, a, b)
            /\ prev' = NoCall
            /\ UNCHANGED <<df, old, writers, ncalls, readerVars>>

FnBenzeneCossq ==
    /\ call = NoCall
    /\ \E p \in GeoParticles, a \in PlaneIdxs, b \in PlaneIdxs :
            /\ call' = [op |-> "benzene_cossq", particle |-> p,
                        idxs1 |-> a, idxs2 |-> b]
            /\ result' = BenzeneCossq(p, a, b)
            /\ prev' = NoCall
            /\ UNCHANGED <<df, old, writers, ncalls, readerVars>>

NextFn ==
    \/ FnGenerateFeatureId
    \/ FnParseGenerated
    \/ FnParseLiteral
    \/ FnGetBenzeneDst
    \/ FnCosBetweenPlanes
    \/ FnBenzeneCossq

SpecFn == InitFn /\ [][NextFn]_vars

----------------------------------------------------------------------------
(* Tables (pandas.DataFrame): row labels and named columns of equal length *)

DataFrame(index, data) == [type |-> "DataFrame", index |-> index, data |-> data]

ObjCol == <<"o", "b", "j">>

YCol == <<"y">>

BenzeneDstCol == <<"b", "e", "n", "z", "e", "n", "e", "_", "d", "s", "t">>

BenzeneCossqCol == <<"b", "e", "n", "z", "e", "n", "e", "_", "c", "o", "s", "s", "q">>

Float(x) == <<"float", x>>

\* an entry of the structure column that is no Atoms object (a missing value)
NotAtoms == [type |-> "float"]

Columns(t) == DOMAIN t.data

NRows(t) == Len(t.index)

\* df[name] = column: a new column is added, an existing one replaced
SetColumn(t, name, column) ==
    [t EXCEPT !.data = [c \in Columns(t) \cup {name} |->
                            IF c = name THEN column ELSE t.data[c]]]

\* the outcome of a builder call: the exception raised (or "none"), the
\* table afterwards and the column written
Done(t, name) == [err |-> "none", table |-> t, name |-> name]

Fail(t, e) == [err |-> e, table |-> t, name |-> <<>>]

\* __check_df without the test for the 'obj' column
CheckDfNoColumnTest(t) ==
    IF t.type # "DataFrame" THEN Raise("ValueError")
    ELSE IF ObjCol \notin Columns(t) THEN Raise("KeyError")
    ELSE IF Len(t.data[ObjCol]) < 1 THEN Raise("ValueError")
    ELSE IF \E i \in 1..NRows(t) : t.data[ObjCol][i].type # "Atoms"
         THEN Raise("ValueError")
    ELSE Ok(<<>>)

CheckDf(t) ==
    IF t.type # "DataFrame" THEN Raise("ValueError")
    ELSE IF ObjCol \notin Columns(t) THEN Raise("ValueError")
    ELSE IF Len(t.data[ObjCol]) < 1 THEN Raise("ValueError")
    ELSE IF \E i \in 1..NRows(t) : t.data[ObjCol][i].type # "Atoms"
         THEN Raise("ValueError")
    ELSE Ok(<<>>)

\* the wrapper of assert_proper_input("df", __check_df): df is passed by
\* keyword, by position, or not at all; body is what the wrapped function
\* does when the check lets it run
AssertProperInput(passing, t, body) ==
    IF passing = "missing" THEN Fail(t, "ValueError")
    ELSE IF ~IsOk(CheckDf(t)) THEN Fail(t, CheckDf(t).err)
    ELSE body

\* df.loc[0, "obj"]: the entry of the row LABELLED 0
LocZeroObj(t) ==
    IF ObjCol \notin Columns(t) \/ ~\E i \in 1..NRows(t) : t.index[i] = 0
    THEN Raise("KeyError")
    ELSE Ok(t.data[ObjCol][CHOOSE i \in 1..NRows(t) : t.index[i] = 0])

\* the geometric function each builder hands to __add_universal_feature
Func(kind, particle, idxs) ==
    CASE kind = "dst" -> GetDistance(particle, idxs)
      [] kind = "ang" -> GetAngle(particle, idxs)
      [] kind = "dih" -> GetDihedral(particle, idxs)

NamePrefix(kind) ==
    CASE kind = "dst" -> <<"d", "s", "t">>
      [] kind = "ang" -> <<"a", "n", "g">>
      [] kind = "dih" -> <<"d", "i", "h">>

\* df["obj"].apply(f): f on every row in order; the first exception ends it
Apply(t, rows) ==
    IF AllOk(rows) THEN Ok([i \in 1..NRows(t) |-> rows[i].val])
    ELSE FirstError(rows)

\* __add_universal_feature(df, func, name_prefix, *idxs)
AddUniversalFeature(t, kind, idxs) ==
    LET particle == LocZeroObj(t)
        fid == GenerateFeatureId(particle.val, idxs, <<>>)
        feature_name == NamePrefix(kind) \o fid.val
        column == Apply(t, [i \in 1..NRows(t) |->
                               Func(kind, t.data[ObjCol][i], idxs)])
    IN  IF ~IsOk(particle) THEN Fail(t, particle.err)
        ELSE IF ~IsOk(fid) THEN Fail(t, fid.err)
        ELSE IF ~IsOk(column) THEN Fail(t, column.err)
        ELSE Done(SetColumn(t, feature_name, column.val), feature_name)

\* the body of add_benzene_dst_feature
BenzeneDstBody(t, benzene1_idxs, benzene2_idxs) ==
    LET column == Apply(t, [i \in 1..NRows(t) |->
                               GetBenzeneDst(t.data[ObjCol][i],
                                             benzene1_idxs, benzene2_idxs)])
    IN  IF ~IsOk(column) THEN Fail(t, column.err)
        ELSE Done(SetColumn(t, BenzeneDstCol, column.val), BenzeneDstCol)

\* the body of add_benzene_cossq_feature
BenzeneCossqBody(t, benzene1_idxs, benzene2_idxs) ==
    LET column == Apply(t, [i \in 1..NRows(t) |->
                               BenzeneCossq(t.data[ObjCol][i],
                                            benzene1_idxs, benzene2_idxs)])
    IN  IF ~IsOk(column) THEN Fail(t, column.err)
        ELSE Done(SetColumn(t, BenzeneCossqCol, column.val), BenzeneCossqCol)

\* a column of comment_df brought to the row labels of index: rows whose
\* label comment_df lacks get nan
Aligned(index, comment_df, feature) ==
    [i \in 1..Len(index) |->
        IF \E j \in 1..NRows(comment_df) : comment_df.index[j] = index[i]
        THEN comment_df.data[feature][CHOOSE j \in 1..NRows(comment_df) :
                                          comment_df.index[j] = index[i]]
        ELSE NaN]

\* add_comment_feature with the precondition check of the other builders
AddCommentFeatureChecked(t, comment_df, feature) ==
    IF feature \notin Columns(comment_df) THEN Fail(t, "KeyError")
    ELSE IF ~IsOk(CheckDf(t)) THEN Fail(t, "ValueError")
    ELSE Done(SetColumn(t, feature, Aligned(t.index, comment_df, feature)), feature)

\* add_comment_feature: df[feature] = comment_df[feature], no decorator.
\* Assigning a non-empty Series to a table without rows gives the table the
\* Series' row labels, the existing columns filled with missing values.
AddCommentFeature(t, comment_df, feature) ==
    IF feature \notin Columns(comment_df) THEN Fail(t, "KeyError")
    ELSE IF t.type # "DataFrame" THEN Fail(t, "TypeError")
    ELSE IF NRows(t) = 0 /\ NRows(comment_df) > 0
         THEN Done(DataFrame(comment_df.index,
                             [c \in Columns(t) \cup {feature} |->
                                 IF c = feature THEN comment_df.data[feature]
                                 ELSE [i \in 1..NRows(comment_df) |->
                                          IF c = ObjCol THEN NotAtoms ELSE NaN]]),
                   feature)
    ELSE Done(SetColumn(t, feature, Aligned(t.index, comment_df, feature)), feature)

----------------------------------------------------------------------------
(* The table builder as a state machine: up to MaxCalls calls on one table *)

\* same symbols as SquareP, other positions
SkewP ==
    Atoms(<<SymC, SymC, SymH, SymH>>,
          <<<<0, 0, 0>>, <<1, 0, 0>>, <<0, 1, 0>>, <<0, 0, 1>>>>)

YValues == <<Float(1), Float(2)>>

TableOf(index, structures) ==
    DataFrame(index, [c \in {ObjCol, YCol} |->
                         IF c = ObjCol THEN structures ELSE YValues])

\* tables that pass __check_df
ValidTables ==
    {TableOf(<<0, 1>>, <<SquareP, SkewP>>),     \* rows alike in symbols
     TableOf(<<1, 0>>, <<TetraP, SquareP>>),    \* the row labelled 0 is the second
     TableOf(<<0, 1>>, <<SquareP, LineP>>),     \* a later row has fewer atoms
     TableOf(<<0, 1>>, <<LineP, SkewP>>),       \* the first row has fewer atoms
     TableOf(<<5, 6>>, <<SquareP, TetraP>>)}    \* no row is labelled 0

\* arguments that fail __check_df
InvalidTables ==
    {NoTable,
     DataFrame(<<0, 1>>, [c \in {YCol} |-> YValues]),
     DataFrame(<<>>, [c \in {ObjCol, YCol} |-> <<>>]),
     TableOf(<<0, 1>>, <<SquareP, NotAtoms>>)}

\* the metadata table of get_comments_df: one row per structure, labels 0..
CommentDf ==
    DataFrame(<<0, 1>>,
              [c \in {<<"i", "d">>, <<"1">>} |-> <<Float(7), Float(8)>>])

CommentFeatures == {<<"i", "d">>, <<"1">>, <<"t", "o", "t", "a", "l">>}

DstArgs == {<<0, 1>>, <<1, 0>>, <<0, 0>>, <<0, 3>>, <<1, 4>>, <<-1, 0>>}

AngArgs == {<<0, 1, 2>>, <<2, 1, 0>>, <<0, 1, 3>>, <<1, 4, 0>>}

DihArgs == {<<0, 1, 2, 3>>, <<3, 2, 1, 0>>, <<0, 1, 2, 4>>}

BenzeneDstArgs ==
    {<<<<0, 1>>, <<2, 3>>>>, <<<<0>>, <<1, 2>>>>, <<<<0, 1>>, <<2, 4>>>>,
     <<<<-1>>, <<0, 0>>>>}

BenzeneCossqArgs ==
    {<<<<0, 1, 2>>, <<1, 2, 3>>>>, <<<<2, 1, 0>>, <<1, 2, 3>>>>,
     <<<<0, 1, 2>>, <<2, 1, 0>>>>, <<<<0, 1, 1>>, <<0, 1, 2>>>>,
     <<<<0, 1, 2>>, <<1, 2, 4>>>>}

Passings == {"positional", "keyword", "missing"}

Init ==
    /\ NoFile
    /\ df \in ValidTables \cup InvalidTables
    /\ old = df
    /\ call = NoCall
    /\ result = NoResult
    /\ prev = NoCall
    /\ writers = NoWriters
    /\ ncalls = 0

\* the bookkeeping of one call: the table before and after, the outcome,
\* and who has written each column so far
Step(op, args, passing, out) ==
    /\ ncalls < MaxCalls
    /\ ncalls' = ncalls + 1
    /\ old' = df
    /\ df' = out.table
    /\ call' = [op |-> op, args |-> args, given |-> passing # "missing"]
    /\ result' = IF out.err = "none" THEN Ok(out.name) ELSE Raise(out.err)
    /\ writers' =
           IF out.err # "none" THEN writers
           ELSE [c \in DOMAIN writers \cup {out.name} |->
                    (IF c \in DOMAIN writers THEN writers[c] ELSE {})
                        \cup (IF c = out.name THEN {<<op, args>>} ELSE {})]
    /\ UNCHANGED <<prev, readerVars>>

AddDstFeature ==
    \E passing \in Passings, idxs \in DstArgs :
        Step("add_dst_feature", idxs, passing,
             AssertProperInput(passing, df, AddUniversalFeature(df, "dst", idxs)))

AddAngFeature ==
    \E passing \in Passings, idxs \in AngArgs :
        Step("add_ang_feature", idxs, passing,
             AssertProperInput(passing, df, AddUniversalFeature(df, "ang", idxs)))

AddDihFeature ==
    \E passing \in Passings, idxs \in DihArgs :
        Step("add_dih_feature", idxs, passing,
             AssertProperInput(passing, df, AddUniversalFeature(df, "dih", idxs)))

AddBenzeneDstFeature ==
    \E passing \in Passings, groups \in BenzeneDstArgs :
        Step("add_benzene_dst_feature", groups, passing,
             AssertProperInput(passing, df,
                               BenzeneDstBody(df, groups[1], groups[2])))

AddBenzeneCossqFeature ==
    \E passing \in Passings, planes \in BenzeneCossqArgs :
        Step("add_benzene_cossq_feature", planes, passing,
             AssertProperInput(passing, df,
                               BenzeneCossqBody(df, planes[1], planes[2])))

AddCommentFeatureCall ==
    \E feature \in CommentFeatures :
        Step("add_comment_feature", <<feature>>, "positional",
             AddCommentFeature(df, CommentDf, feature))

Next ==
    \/ AddDstFeature
    \/ AddAngFeature
    \/ AddDihFeature
    \/ AddBenzeneDstFeature
    \/ AddBenzeneCossqFeature
    \/ AddCommentFeatureCall

Spec == Init /\ [][Next]_vars

----------------------------------------------------------------------------
(* _load_lines_after_specified_one as a state machine: one step per        *)
(* iteration of its loop over the lines of the file                        *)

\* the characters str.strip() removes
Whitespace == {" ", "\n", "\t"}

\* the line the file iterator yields next from the unread text: up to and
\* including the first newline, or all that is left when there is none
ReadLine(text) ==
    IF \E i \in 1..Len(text) : text[i] = "\n"
    THEN SubSeq(text, 1, CHOOSE i \in 1..Len(text) :
                             /\ text[i] = "\n"
                             /\ \A j \in 1..(i - 1) : text[j] # "\n")
    ELSE text

\* the unread text after that line
AfterLine(text) == SubSeq(text, Len(ReadLine(text)) + 1, Len(text))

\* line.strip()
Strip(line) ==
    LET kept == {i \in 1..Len(line) : line[i] \notin Whitespace}
    IN  IF kept = {} THEN <<>>
        ELSE SubSeq(line,
                    CHOOSE i \in kept : \A j \in kept : i <= j,
                    CHOOSE i \in kept : \A j \in kept : j <= i)

\* what file texts are put together from: the count line of an xyz block
\* with and without its newline, the same with a blank before it, a comment
\* line and an empty line
TextPieces ==
    {<<"4", "2", "\n">>, <<"4", "2">>, <<" ", "4", "2", "\n">>,
     <<"a", " ", "b", " ", "\n">>, <<"\n">>}

FileTexts == {Join(pieces) : pieces \in TuplesOver(TextPieces, 0, MaxPieces)}

\* get_comments_df passes "42\n"; "42" is the same line without newline
SpecifiedLines == {<<"4", "2", "\n">>, <<"4", "2">>}

LoadOp == "_load_lines_after_specified_one"

InitLoad ==
    /\ NoFile
    /\ df = NoTable
    /\ old = NoTable
    /\ call = NoCall
    /\ result = NoResult
    /\ prev = NoCall
    /\ writers = NoWriters
    /\ ncalls = 0

\* the call up to the loop: the locals are set and the file is opened
LoadOpen ==
    /\ call = NoCall
    /\ \E text \in FileTexts, specified_line \in SpecifiedLines :
            /\ call' = [op |-> LoadOp, text |-> text,
                        specified_line |-> specified_line]
            /\ f' = text
    /\ comments' = <<>>
    /\ next_line_is_comment' = FALSE
    /\ UNCHANGED <<result, callerVars>>

\* the flag update that takes effect only on lines that were not collected
LoadLineElse ==
    /\ call.op = LoadOp
    /\ result = NoResult
    /\ f # <<>>
    /\ LET line == ReadLine(f)
       IN  /\ comments' = IF next_line_is_comment
                          THEN Append(comments, Strip(line))
                          ELSE comments
           /\ next_line_is_comment' =
                  (~next_line_is_comment /\ line = call.specified_line)
    /\ f' = AfterLine(f)
    /\ UNCHANGED <<call, result, callerVars>>

\* one iteration of the loop
LoadLine ==
    /\ call.op = LoadOp
    /\ result = NoResult
    /\ f # <<>>
    /\ LET line == ReadLine(f)
       IN  /\ comments' = IF next_line_is_comment
                          THEN Append(comments, Strip(line))
                          ELSE comments
           /\ next_line_is_comment' = (line = call.specified_line)
    /\ f' = AfterLine(f)
    /\ UNCHANGED <<call, result, callerVars>>

\* the file is exhausted: return comments
LoadReturn ==
    /\ call.op = LoadOp
    /\ result = NoResult
    /\ f = <<>>
    /\ result' = Ok(comments)
    /\ UNCHANGED <<call, callerVars, readerVars>>

NextLoad ==
    \/ LoadOpen
    \/ LoadLine
    \/ LoadReturn

SpecLoad == InitLoad /\ [][NextLoad]_vars

----------------------------------------------------------------------------
(* Properties of the pure functions (checked under SpecFn) *)

InRange(particle, idx) == 0 <= idx /\ idx < NAtoms(particle)

AllInRange(particle, idxs) == \A k \in 1..Len(idxs) : InRange(particle, idxs[k])

Reversed(plane_idxs) == <<plane_idxs[3], plane_idxs[2], plane_idxs[1]>>

\* a parse of a name the encoder built from in-range indices
ParsedGenerated ==
    /\ call.op = "parse_feature_name"
    /\ prev.op = "generate_feature_id"
    /\ AllInRange(prev.particle, prev.idxs)

\* C1: parsing prefix + generate_feature_id(S, idxs), for in-range idxs and
\* any prefix of lowercase letters/underscore, returns alias = prefix and
\* atoms_idxs = idxs
C1_RoundTrip ==
    ParsedGenerated =>
        /\ IsOk(result)
        /\ result.val.alias = prev.prefix
        /\ result.val.atoms_idxs = prev.idxs

\* the round trip for the prefixes that are not empty
RoundTripNonEmptyPrefix ==
    (ParsedGenerated /\ prev.prefix # <<>>) =>
        /\ IsOk(result)
        /\ result.val.alias = prev.prefix
        /\ result.val.atoms_idxs = prev.idxs

\* with the encoder's default prefix "" the parser has no alias to match
EmptyPrefixRaises ==
    (ParsedGenerated /\ prev.prefix = <<>>) => result = Raise("AttributeError")

\* the indices a call of an index-taking function was given
CallIdxs ==
    IF call.op = "generate_feature_id" THEN call.idxs
    ELSE IF call.op \in {"get_benzene_dst", "cos_between_planes", "benzene_cossq"}
         THEN call.idxs1 \o call.idxs2
    ELSE <<>>

\* C5: an index outside 0..n-1, a negative one included, given to
\* get_benzene_dst, cos_between_planes or generate_feature_id fails with
\* an index-out-of-range condition
C5_BoundsChecked ==
    (/\ call.op \in {"generate_feature_id", "get_benzene_dst", "cos_between_planes"}
     /\ ~AllInRange(call.particle, CallIdxs))
        => result = Raise("IndexError")

\* what the lookups do check: an index outside -n..n-1 fails
OutsidePythonRangeRaises ==
    (/\ call.op \in {"generate_feature_id", "get_benzene_dst", "cos_between_planes"}
     /\ \E k \in 1..Len(CallIdxs) :
            \/ CallIdxs[k] >= NAtoms(call.particle)
            \/ CallIdxs[k] < -NAtoms(call.particle))
        => result = Raise("IndexError")

HasDigit(name) == \E i \in 1..Len(name) : name[i] \in DigitChars

\* C8: parse_feature_name returns normally on a name without digit runs,
\* with empty atoms_idxs and alias = the leading lowercase/underscore run;
\* for any name atoms_idxs is every maximal digit run, left to right
C8_ParseAnyName ==
    call.op = "parse_feature_name" =>
        /\ IsOk(result)
        /\ result.val.atoms_idxs =
               [i \in 1..Len(FindAllDigits(call.name)) |->
                    IntOfDigits(FindAllDigits(call.name)[i])]
        /\ ~HasDigit(call.name) =>
               /\ result.val.atoms_idxs = <<>>
               /\ result.val.alias = LeadingRun(call.name, LowerChars)

\* -v
Negated(v) == <<-v[1], -v[2], -v[3]>>

\* C10: cos_between_planes(p, A, B) ** 2 is the same when A, B or both are
\* replaced by their reversals, each of which negates that plane's normal
C10_CossqOrientationInvariant ==
    (call.op = "benzene_cossq" /\ IsOk(result) /\ IsFinite(result.val)) =>
        LET p == call.particle
            a == call.idxs1
            b == call.idxs2
        IN  /\ CalculatePerpendicularVector(p, Reversed(a)).val
                   = Negated(CalculatePerpendicularVector(p, a).val)
            /\ CalculatePerpendicularVector(p, Reversed(b)).val
                   = Negated(CalculatePerpendicularVector(p, b).val)
            /\ BenzeneCossq(p, Reversed(a), b) = result
            /\ BenzeneCossq(p, a, Reversed(b)) = result
            /\ BenzeneCossq(p, Reversed(a), Reversed(b)) = result

\* two planes at an oblique angle: the cosine changes sign with the
\* orientation of the first plane, its square is 1/3 either way
C10_Witness ==
    /\ call.op = "benzene_cossq"
    /\ result = Ok(<<"ratio", 1, 3>>)
    /\ CosBetweenPlanes(call.particle, call.idxs1, call.idxs2).val[2]
           = -CosBetweenPlanes(call.particle, Reversed(call.idxs1), call.idxs2).val[2]

----------------------------------------------------------------------------
(* Properties of the table builder (checked under Spec) *)

DecoratedOps ==
    {"add_dst_feature", "add_ang_feature", "add_dih_feature",
     "add_benzene_dst_feature", "add_benzene_cossq_feature"}

UniversalOps == {"add_dst_feature", "add_ang_feature", "add_dih_feature"}

KindOf(op) ==
    CASE op = "add_dst_feature" -> "dst"
      [] op = "add_ang_feature" -> "ang"
      [] op = "add_dih_feature" -> "dih"

\* the table precondition: a table, with a structure column, that is not
\* empty and holds only Structures
TableOk(t) ==
    /\ t.type = "DataFrame"
    /\ ObjCol \in Columns(t)
    /\ NRows(t) >= 1
    /\ \A i \in 1..NRows(t) : t.data[ObjCol][i].type = "Atoms"

\* C2: on a table that violates the precondition each decorated builder
\* fails with ValueError and the table is as it was
C2_InvalidTableRejected ==
    (call.op \in DecoratedOps /\ call.given /\ ~TableOk(old)) =>
        /\ result = Raise("ValueError")
        /\ df = old

\* add_benzene_cossq_feature rejected for a non-Structure entry
C2_Witness ==
    /\ call.op = "add_benzene_cossq_feature"
    /\ call.given
    /\ old.type = "DataFrame"
    /\ ObjCol \in Columns(old)
    /\ \E i \in 1..NRows(old) : old.data[ObjCol][i] = NotAtoms
    /\ result = Raise("ValueError")
    /\ df = old

\* the effect the claims describe for a successful add_dst/ang/dih call,
\* the column being named after the structure particle
AddsOneColumnNamedAfter(particle) ==
    LET name == NamePrefix(KindOf(call.op))
                    \o GenerateFeatureId(particle, call.args, <<>>).val
    IN  /\ Columns(df) = Columns(old) \cup {name}
        /\ df.index = old.index
        /\ \A c \in Columns(old) \ {name} : df.data[c] = old.data[c]
        /\ \A i \in 1..NRows(old) :
               df.data[name][i] =
                   Func(KindOf(call.op), old.data[ObjCol][i], call.args).val

\* C3: a successful add_dst/ang/dih call adds (or overwrites) exactly the
\* column prefix + generate_feature_id(first structure, idxs), row i holding
\* the geometric function of row i's structure; nothing else changes
C3_ExactlyOneColumn ==
    (call.op \in UniversalOps /\ IsOk(result)) =>
        AddsOneColumnNamedAfter(old.data[ObjCol][1])

\* what the call does: the name comes from the row labelled 0
OneColumnNamedAfterLabelZero ==
    (call.op \in UniversalOps /\ IsOk(result)) =>
        AddsOneColumnNamedAfter(LocZeroObj(old).val)

\* some supplied index is beyond the atoms of some row's structure
SomeIndexExceeds ==
    \E i \in 1..NRows(old), k \in 1..Len(call.args) :
        call.args[k] >= NAtoms(old.data[ObjCol][i])

IndexExceedsCase ==
    /\ call.op \in UniversalOps
    /\ call.given
    /\ TableOk(old)
    /\ SomeIndexExceeds

\* C4: with an index beyond the atom count of any row, the index error
\* reaches the caller and the table has no new column and no changed value
C4_IndexErrorAtomic ==
    IndexExceedsCase => (result = Raise("IndexError") /\ df = old)

\* what holds of every call: one that fails leaves the table as it was
FailedCallLeavesTable ==
    (call.op # "none" /\ ~IsOk(result)) => df = old

\* with a row labelled 0 the error of the case is the index error
IndexErrorWithLabelZero ==
    (IndexExceedsCase /\ IsOk(LocZeroObj(old))) =>
        (result = Raise("IndexError") /\ df = old)

\* C6: every mutating operation, add_comment_feature included, fails and
\* leaves the table alone when the precondition is violated
C6_AllMutatorsCheck ==
    (call.op # "none" /\ call.given /\ ~TableOk(old)) =>
        (~IsOk(result) /\ df = old)

\* C6 as amended: only add_comment_feature changes a table that violates the
\* precondition, and it writes whenever df is a table and comment_df has
\* the column
C6_OnlyCommentWritesUnchecked ==
    /\ (~TableOk(old) /\ df # old) => call.op = "add_comment_feature"
    /\ (/\ call.op = "add_comment_feature"
        /\ old.type = "DataFrame"
        /\ call.args[1] \in Columns(CommentDf))
           => (IsOk(result) /\ call.args[1] \in Columns(df))

\* a metadata column written into a table without structure column
C6_Witness ==
    /\ call.op = "add_comment_feature"
    /\ old.type = "DataFrame"
    /\ ObjCol \notin Columns(old)
    /\ IsOk(result)
    /\ Columns(df) = Columns(old) \cup {call.args[1]}
    /\ df # old

\* C7: two feature-adding calls on one table write the same column only if
\* they are the same kind with the same ordered indices
C7_NamesUnique ==
    \A c \in DOMAIN writers : Cardinality(writers[c]) <= 1

\* C7 as amended: that holds of add_dst/ang/dih; the benzene builders write
\* the fixed columns benzene_dst and benzene_cossq whatever their indices
C7_UniversalNamesUnique ==
    \A c \in DOMAIN writers :
        /\ Cardinality({w \in writers[c] : w[1] \in UniversalOps}) <= 1
        /\ \A w \in writers[c] :
               /\ w[1] = "add_benzene_dst_feature" => c = BenzeneDstCol
               /\ w[1] = "add_benzene_cossq_feature" => c = BenzeneCossqCol

\* the same two atoms in either order give two columns
C7_Witness ==
    \E c1 \in DOMAIN writers, c2 \in DOMAIN writers :
        /\ c1 # c2
        /\ <<"add_dst_feature", <<0, 1>>>> \in writers[c1]
        /\ <<"add_dst_feature", <<1, 0>>>> \in writers[c2]

ZeroNormal(particle, plane_idxs) ==
    CalculatePerpendicularVector(particle, plane_idxs).val = <<0, 0, 0>>

\* row i has no defined value under the call's arguments
Degenerate(i) ==
    CASE call.op = "add_dst_feature" -> FALSE
      [] call.op = "add_benzene_dst_feature" ->
             call.args[1] = <<>> \/ call.args[2] = <<>>
      [] call.op = "add_benzene_cossq_feature" ->
             \/ ZeroNormal(old.data[ObjCol][i], call.args[1])
             \/ ZeroNormal(old.data[ObjCol][i], call.args[2])

ValidUniversalCall ==
    /\ call.op \in UniversalOps
    /\ call.given
    /\ TableOk(old)

\* the name-composition step of __add_universal_feature on table t: the
\* lookup of the naming structure, then generate_feature_id on it
NameStep(t, idxs) ==
    IF ~IsOk(LocZeroObj(t)) THEN LocZeroObj(t)
    ELSE GenerateFeatureId(LocZeroObj(t).val, idxs, <<>>)

\* C11: on a table that passes the precondition check the column name is
\* composed once from the structure at row position 0, whatever the row
\* labels, and the name-composition step does not fail for indices valid in
\* that first row
C11_NameFromFirstRow ==
    ValidUniversalCall =>
        LET fid == GenerateFeatureId(old.data[ObjCol][1], call.args, <<>>)
        IN  /\ IsOk(result) =>
                   result.val = NamePrefix(KindOf(call.op)) \o fid.val
            /\ IsOk(fid) => IsOk(NameStep(old, call.args))

\* what the call does: one name for the whole column, composed from the row
\* labelled 0, and KeyError when no row carries that label
NameFromLabelZero ==
    ValidUniversalCall =>
        /\ IsOk(result) =>
               /\ result.val = NamePrefix(KindOf(call.op))
                                   \o NameStep(old, call.args).val
               /\ Columns(df) = Columns(old) \cup {result.val}
        /\ ~IsOk(LocZeroObj(old)) => (result = Raise("KeyError") /\ df = old)

----------------------------------------------------------------------------
(* Properties of _load_lines_after_specified_one (checked under SpecLoad) *)

RECURSIVE Lines(_)
\* the lines of a text, in file order
Lines(text) ==
    IF text = <<>> THEN <<>>
    ELSE <<ReadLine(text)>> \o Lines(AfterLine(text))

RECURSIVE StrippedAfter(_, _, _)
\* the stripped lines at the positions i+1, i >= k, such that line i is the
\* marker, in order
StrippedAfter(lines, marker, k) ==
    IF k >= Len(lines) THEN <<>>
    ELSE (IF lines[k] = marker THEN <<Strip(lines[k + 1])>> ELSE <<>>)
             \o StrippedAfter(lines, marker, k + 1)

\* the lines of the file the loop has consumed
LinesRead ==
    SubSeq(Lines(call.text), 1, Len(Lines(call.text)) - Len(Lines(f)))

\* C12: _load_lines_after_specified_one returns exactly the stripped lines
\* at the positions i+1 such that line i equals the specified line, in file
\* order (a collected line that is itself the marker makes the line after
\* it collected too, a marker on the last line adds nothing), as many as
\* there are marker lines that are not the last line; while it scans, the
\* same holds of the lines read so far and the flag says whether the last
\* line read was the marker
C12_LinesAfterMarker ==
    call.op = LoadOp =>
        LET all == Lines(call.text)
            marker == call.specified_line
        IN  /\ comments = StrippedAfter(LinesRead, marker, 1)
            /\ next_line_is_comment =
                   (LinesRead # <<>> /\ LinesRead[Len(LinesRead)] = marker)
            /\ IsOk(result) =>
                   /\ f = <<>>
                   /\ result.val = StrippedAfter(all, marker, 1)
                   /\ Len(result.val) =
                          Cardinality({i \in 1..(Len(all) - 1) : all[i] = marker})

\* a returned call on a file with two marker lines in a row, a comment line
\* and a marker as last line: the second marker and the comment are
\* collected, stripped, and the last marker adds nothing
C12_Witness ==
    /\ call.op = LoadOp
    /\ call.specified_line = <<"4", "2", "\n">>
    /\ Lines(call.text) = <<<<"4", "2", "\n">>, <<"4", "2", "\n">>,
                            <<"a", " ", "b", " ", "\n">>, <<"4", "2", "\n">>>>
    /\ result = Ok(<<<<"4", "2">>, <<"a", " ", "b">>>>)

====
